---- MODULE Spec2Model ----
(***************************************************************************)
(* A model of fix_pdfs_inplace.py: the recursive walk over a directory     *)
(* tree, the PDF detector, the in-place repair of one PDF through a temp   *)
(* file in the same directory, and the driver with its counters and exit   *)
(* status.                                                                 *)
(*                                                                         *)
(* File and directory names are sequences of one-character strings, file   *)
(* contents are sequences of bytes (one-character strings).  A path is the *)
(* sequence of names below the root; the root itself is the empty path and *)
(* carries its own name in rootName.                                       *)
(***************************************************************************)
EXTENDS Integers, Sequences, FiniteSets, TLC

\* ------------------------------------------------------------------ bounds

\* The largest number of files the scanned tree holds at the start of a run.
MaxFiles == 2

\* --------------------------------------------------------- names and bytes

UpperChars == <<"A","B","C","D","E","F","G","H","I","J","K","L","M",
                "N","O","P","Q","R","S","T","U","V","W","X","Y","Z">>
LowerChars == <<"a","b","c","d","e","f","g","h","i","j","k","l","m",
                "n","o","p","q","r","s","t","u","v","w","x","y","z">>

\* str.lower() on one character.
LowerChar(c) ==
    IF \E i \in 1..Len(UpperChars) : UpperChars[i] = c
    THEN LowerChars[CHOOSE i \in 1..Len(UpperChars) : UpperChars[i] = c]
    ELSE c

\* str.lower() on a name.
Lower(s) == [i \in 1..Len(s) |-> LowerChar(s[i])]

\* The last element of a sequence: the name of a path.
Last(s) == s[Len(s)]

\* str.rfind("."): the last index of a dot, 0 when there is none (Python's -1).
RFindDot(s) ==
    IF \E i \in 1..Len(s) : s[i] = "."
    THEN CHOOSE i \in 1..Len(s) : s[i] = "." /\ \A j \in (i+1)..Len(s) : s[j] # "."
    ELSE 0

\* pathlib's PurePath.suffix: the last dot and what follows it, unless the dot
\* is the first or the last character of the name.
Suffix(name) ==
    LET i == RFindDot(name)
    IN  IF 1 < i /\ i < Len(name) THEN SubSeq(name, i, Len(name)) ELSE <<>>

DotPdf == <<".","p","d","f">>
QpdfTmp == <<".","q","p","d","f","_","t","m","p">>

\* tmp_name = f".{pdf_path.name}.qpdf_tmp"
TmpName(name) == <<".">> \o name \o QpdfTmp

\* pdf_path.with_name(tmp_name): the sibling of path p with the temp name.
TmpPath(p) == SubSeq(p, 1, Len(p) - 1) \o <<TmpName(p[Len(p)])>>

\* The directories iter_pdfs skips.
skip_dirs ==
    { <<"$","r","e","c","y","c","l","e",".","b","i","n">>,
      <<"s","y","s","t","e","m"," ","v","o","l","u","m","e"," ",
        "i","n","f","o","r","m","a","t","i","o","n">>,
      <<".","g","i","t">>,
      <<".","s","v","n">>,
      <<"_","_","p","y","c","a","c","h","e","_","_">> }

\* d.lower() not in skip_dirs, negated: the walker drops subdirectory d.
\* (IsSkipped_NoLower is the faulty variant that forgets lower(); like the
\* other variants below that carry a suffix after the operator's name, it
\* serves to test that a property depends on the operator.)
IsSkipped_NoLower(dname) == dname \in skip_dirs
IsSkipped(dname) == Lower(dname) \in skip_dirs

\* b"%PDF-"
Magic == <<"%","P","D","F","-">>

\* f.read(5): at most the first five bytes.
Read5(content) == SubSeq(content, 1, IF Len(content) < 5 THEN Len(content) ELSE 5)

\* The size below which fix_one_pdf rejects the tool's output.
MinTmpSize == 10

\* ------------------------------------------------------ the scanned universe

\* Directory names below the root: an ordinary one and a version-control
\* directory spelled in mixed case.
N_docs == <<"d","o","c","s">>
N_Git  == <<".","G","i","t">>
DirNames == {N_docs, N_Git}

\* Names the root directory itself may carry (the last component of the
\* resolved root path).
N_data == <<"d","a","t","a">>
N_git  == <<".","g","i","t">>
RootNames == {N_data, N_git}

\* The deepest nesting of directories below the root.
MaxDepth == 2

RECURSIVE DirsUpTo(_)
DirsUpTo(n) ==
    IF n = 0 THEN {<<>>}
    ELSE LET shorter == DirsUpTo(n - 1)
         IN  shorter \cup {Append(d, x) : d \in shorter, x \in DirNames}

\* Every directory of the tree; all of them exist, some stay empty.
Dirs == DirsUpTo(MaxDepth)

\* File names.
N_a   == <<"a",".","p","d","f">>
N_b   == <<"b",".","P","D","F">>
N_c   == <<"c",".","p","d","f">>
N_n   == <<"n",".","t","x","t">>
N_hid == <<".","p","d","f">>

\* File contents.
PdfA  == <<"%","P","D","F","-","1",".","4","o","b","j">>
Hello == <<"h","e","l","l","o">>
Trunc == <<"%","P","D","F">>
Stale == <<"%","P","D","F","-","s","t","a","l","e","!">>

\* What the external tool may write to the temp path: nine bytes (too
\* small) or ten bytes (the smallest accepted output).
Out10 == <<"%","P","D","F","-","1",".","5","L","N">>
Out9  == SubSeq(Out10, 1, Len(Out10) - 1)
ToolOutputs == {Out9, Out10}

\* The files a tree may hold at the start: [path, content].  In the root a
\* PDF, a PDF with an upper-case extension, a text file renamed to .pdf, a
\* truncated header, a PDF under another extension, a dot-file named ".pdf"
\* and a temp file left behind by an earlier run; below the root a PDF in
\* every directory that has an excluded name nowhere or only as the first or
\* the last name of its path.
RootEntries ==
    { [path |-> <<N_a>>, content |-> PdfA],
      [path |-> <<N_b>>, content |-> PdfA],
      [path |-> <<N_c>>, content |-> Hello],
      [path |-> <<N_c>>, content |-> Trunc],
      [path |-> <<N_n>>, content |-> PdfA],
      [path |-> <<N_hid>>, content |-> PdfA],
      [path |-> <<TmpName(N_a)>>, content |-> Stale] }
PdfDirs ==
    { d \in Dirs \ {<<>>} : \A i \in 2..(Len(d) - 1) : d[i] = N_docs }
      \ { d \in Dirs : Len(d) > 1 /\ d[1] = N_Git /\ d[Len(d)] = N_Git }
SubEntries == { [path |-> Append(d, N_a), content |-> PdfA] : d \in PdfDirs }
Entries == RootEntries \cup SubEntries

\* The initial file systems: at most MaxFiles entries with distinct paths.
InitialFiles ==
    { S \in SUBSET Entries :
        /\ Cardinality(S) <= MaxFiles
        /\ \A e1, e2 \in S : e1.path = e2.path => e1 = e2 }

\* A set of entries as a function from path to content.
AsFiles(S) ==
    [p \in {e.path : e \in S} |-> (CHOOSE e \in S : e.path = p).content]

\* ------------------------------------------------------------------- state

VARIABLES
    rootName,    \* the name of the root directory
    rootKind,    \* "dir", "file" or "missing": what the root path refers to
    files,       \* the file system below the root: path -> content
    unreadable,  \* the paths whose open() raises an I/O error
    dry_run,     \* args.dry_run
    pc,          \* where the program is
    qpdf,        \* the located tool: "" before find_qpdf ran
    todoDirs,    \* os.walk: the directories still to visit, next one first
    todoFiles,   \* iter_pdfs: the files of the current directory still to test
    cur,         \* the candidate handed to fix_one_pdf, <<>> when none
    status,      \* the status fix_one_pdf returned for cur
    changed,     \* the changed flag fix_one_pdf returned for cur
    total, fixed, failed,   \* the driver's counters
    exitCode,    \* the argument of sys.exit, -1 while running
    \* history, for stating the properties
    files0,      \* the file system at the start of the run
    visited,     \* the directories os.walk listed
    examined,    \* the files is_pdf_file was applied to
    yielded,     \* the candidates iter_pdfs yielded, in order
    handed,      \* the candidates handed to fix_one_pdf, in order
    outcomes,    \* the statuses the driver counted, in order
    toolCalls,   \* how many times the external tool was started
    curPre,      \* the content of cur when fix_one_pdf was entered
    toolWrote,   \* what the tool wrote to the temp path in this call, or NoWrite
    created,     \* the temp paths the tool wrote in this run
    locatable,   \* "yes" or "no" once find_qpdf ran: whether the tool could be located
    staleKept,   \* a temp file of an earlier run survived the deletion in this call
    unlinkFailed \* the temp paths whose deletion after a failure failed

vars == << rootName, rootKind, files, unreadable, dry_run, pc, qpdf, todoDirs,
           todoFiles, cur, status, changed, total, fixed, failed, exitCode,
           files0, visited, examined, yielded, handed, outcomes, toolCalls,
           curPre, toolWrote, created, locatable, staleKept, unlinkFailed >>

NoWrite == <<"(nothing written)">>
NoPath == <<>>

Init ==
    /\ rootName \in RootNames
    /\ rootKind \in {"dir", "file", "missing"}
    /\ \E S \in InitialFiles :
          /\ rootKind # "dir" => S = {}
          /\ files = AsFiles(S)
    /\ unreadable \in { U \in SUBSET { p \in DOMAIN files : Last(p) = N_a } :
                            Cardinality(U) <= 1 }
    /\ dry_run \in BOOLEAN
    /\ pc = "start"
    /\ qpdf = ""
    /\ todoDirs = <<>>
    /\ todoFiles = <<>>
    /\ cur = NoPath
    /\ status = ""
    /\ changed = FALSE
    /\ total = 0 /\ fixed = 0 /\ failed = 0
    /\ exitCode = -1
    /\ files0 = files
    /\ visited = {}
    /\ examined = {}
    /\ yielded = <<>>
    /\ handed = <<>>
    /\ outcomes = <<>>
    /\ toolCalls = 0
    /\ curPre = NoWrite
    /\ toolWrote = NoWrite
    /\ created = {}
    /\ locatable = "?"
    /\ staleKept = FALSE
    /\ unlinkFailed = {}

\* ------------------------------------------------------------ pure helpers

\* Whether path p lies directly in directory d.
IsChildOf(p, d) == Len(p) = Len(d) + 1 /\ SubSeq(p, 1, Len(d)) = d

\* The files and the subdirectories os.scandir finds in directory d.
FilesIn(fs, d) == { p \in DOMAIN fs : IsChildOf(p, d) }
SubdirsOf(d) == { x \in Dirs : IsChildOf(x, d) }

\* The orders in which a directory listing may come: os.scandir promises none.
Orders(S) ==
    { s \in [1..Cardinality(S) -> S] : \A i, j \in 1..Cardinality(S) : s[i] = s[j] => i = j }

\* dirnames[:] = [d for d in dirnames if d.lower() not in skip_dirs]
KeepDirs(ds) == SelectSeq(ds, LAMBDA x : ~IsSkipped(Last(x)))

\* os.walk after the caller pruned dirnames: the kept subdirectories are
\* walked, in order, before the directories that were already waiting.
PushDirs(kept, waiting) == kept \o waiting

\* is_pdf_file: the extension, then the first five bytes; an I/O error (the
\* file is gone or cannot be opened) counts as "not a PDF".
is_pdf_file_NoLower(fs, unread, p) ==
    IF Suffix(Last(p)) # DotPdf THEN FALSE
    ELSE IF p \notin DOMAIN fs \/ p \in unread THEN FALSE
    ELSE Read5(fs[p]) = Magic
is_pdf_file(fs, unread, p) ==
    IF Lower(Suffix(Last(p))) # DotPdf THEN FALSE
    ELSE IF p \notin DOMAIN fs \/ p \in unread THEN FALSE
    ELSE Read5(fs[p]) = Magic

\* find_qpdf: the explicit path when one is given and exists, else what
\* shutil.which finds; "" stands for the FileNotFoundError.
NONE == "<None>"
NotFound == "<FileNotFoundError>"
find_qpdf(explicit, exists, which) ==
    IF explicit # NONE /\ explicit # ""
    THEN IF exists THEN explicit ELSE NotFound
    ELSE IF which # NONE THEN which
    ELSE NotFound

\* The file system after unlink, after a write and after Path.replace.
Unlink(fs, p) == [q \in DOMAIN fs \ {p} |-> fs[q]]
WriteFile(fs, p, c) == [q \in DOMAIN fs \cup {p} |-> IF q = p THEN c ELSE fs[q]]
ReplaceByCopy(fs, tmp, src) ==
    [q \in DOMAIN fs \cup {src} |-> IF q = src THEN fs[tmp] ELSE fs[q]]
Replace(fs, tmp, src) ==
    [q \in (DOMAIN fs \ {tmp}) \cup {src} |-> IF q = src THEN fs[tmp] ELSE fs[q]]

\* "if tmp_path.exists(): tmp_path.unlink()" when the unlink succeeds.
UnlinkIfExists_Skip(fs, tmp) == fs
UnlinkIfExists(fs, tmp) == IF tmp \in DOMAIN fs THEN Unlink(fs, tmp) ELSE fs

\* The plausibility check on the temp output.
TmpInvalid(fs, tmp) == tmp \notin DOMAIN fs \/ Len(fs[tmp]) < MinTmpSize

\* "if dry_run: return False, 'DRY-RUN'"
ReturnsDryRun_Never(d) == FALSE
ReturnsDryRun(d) == d

\* The driver's counters after one candidate.
NewFixed(st, n) == IF st = "OK" THEN n + 1 ELSE n
NewFailed_CountsDryRun(st, n) == IF st = "OK" THEN n ELSE n + 1
NewFailed(st, n) == IF st = "OK" \/ st = "DRY-RUN" THEN n ELSE n + 1

\* Where the driver goes after counting a candidate: back to the walker.
AfterCount_StopOnFailure(st) == IF st = "FEHLER" THEN "summary" ELSE "walk"
AfterCount(st) == "walk"

\* sys.exit(0 if failed == 0 else 1)
ExitStatus_AlwaysZero(f) == 0
ExitStatus(f) == IF f = 0 THEN 0 ELSE 1

\* ----------------------------------------------------------------- actions

walkVars == << todoDirs, todoFiles, visited, examined, yielded >>
fsVars == << files, toolCalls, toolWrote, created, staleKept, unlinkFailed >>
countVars == << total, fixed, failed, outcomes >>
inputVars == << rootName, rootKind, unreadable, dry_run, files0 >>
toolVars == << qpdf, locatable >>

\* main, lines 120-123: the root must exist and be a directory.
CheckRoot ==
    /\ pc = "start"
    /\ IF rootKind # "dir"
       THEN pc' = "exit" /\ exitCode' = 2
       ELSE pc' = "find" /\ UNCHANGED exitCode
    /\ UNCHANGED << inputVars, fsVars, walkVars, countVars, toolVars, cur, status,
                    changed, handed, curPre >>

\* main, lines 125-133: locate the tool, then start the counters and the walk.
\* The --qpdf argument, whether that path exists and what shutil.which finds
\* are inputs.
FindQpdf ==
    /\ pc = "find"
    /\ \E explicit \in {NONE, "", "/usr/bin/qpdf"}, exists \in BOOLEAN,
          which \in {NONE, "/usr/bin/qpdf"} :
          LET found == find_qpdf(explicit, exists, which)
          IN  /\ locatable' = IF \/ explicit \notin {NONE, ""} /\ exists
                                 \/ explicit \in {NONE, ""} /\ which # NONE
                              THEN "yes" ELSE "no"
              /\ IF found = NotFound
                 THEN /\ pc' = "exit" /\ exitCode' = 2
                      /\ UNCHANGED << qpdf, todoDirs >>
                 ELSE /\ pc' = "walk" /\ qpdf' = found
                      /\ todoDirs' = << <<>> >>
                      /\ UNCHANGED exitCode
    /\ UNCHANGED << inputVars, fsVars, countVars, todoFiles, visited, examined,
                    yielded, cur, status, changed, handed, curPre >>

\* iter_pdfs, lines 96-98: os.walk lists the next directory; its
\* subdirectories are pruned and queued, its files are tested next.
WalkNextDir ==
    /\ pc = "walk"
    /\ todoFiles = <<>>
    /\ todoDirs # <<>>
    /\ LET d == Head(todoDirs)
       IN  /\ \E fo \in Orders(FilesIn(files, d)), do \in Orders(SubdirsOf(d)) :
                /\ todoFiles' = fo
                /\ todoDirs' = PushDirs(KeepDirs(do), Tail(todoDirs))
           /\ visited' = visited \cup {d}
    /\ UNCHANGED << inputVars, fsVars, countVars, examined, yielded, pc, toolVars,
                    cur, status, changed, exitCode, handed, curPre >>

\* iter_pdfs, lines 99-102: test the next file of the listing; a PDF is
\* yielded to the driver loop.
WalkNextFile ==
    /\ pc = "walk"
    /\ todoFiles # <<>>
    /\ LET p == Head(todoFiles)
       IN  /\ todoFiles' = Tail(todoFiles)
           /\ examined' = examined \cup {p}
           /\ IF is_pdf_file(files, unreadable, p)
              THEN /\ yielded' = Append(yielded, p)
                   /\ cur' = p
                   /\ pc' = "body"
              ELSE UNCHANGED << yielded, cur, pc >>
    /\ UNCHANGED << inputVars, fsVars, countVars, todoDirs, visited, toolVars,
                    status, changed, exitCode, handed, curPre >>

\* iter_pdfs is exhausted: the driver loop ends.
WalkEnd ==
    /\ pc = "walk"
    /\ todoFiles = <<>>
    /\ todoDirs = <<>>
    /\ pc' = "summary"
    /\ UNCHANGED << inputVars, fsVars, walkVars, countVars, toolVars, cur, status,
                    changed, exitCode, handed, curPre >>

\* main, lines 136-137, and fix_one_pdf, lines 58-70: count the candidate and
\* call fix_one_pdf; a dry run returns at once, otherwise a temp file found at
\* the temp path is deleted, and a failure of that deletion is ignored.
FixEnter ==
    /\ pc = "body"
    /\ total' = total + 1
    /\ handed' = Append(handed, cur)
    /\ curPre' = files[cur]
    /\ toolWrote' = NoWrite
    /\ IF ReturnsDryRun(dry_run)
       THEN /\ status' = "DRY-RUN" /\ changed' = FALSE /\ pc' = "count"
            /\ UNCHANGED << files, staleKept >>
       ELSE /\ pc' = "run_qpdf"
            /\ \/ /\ files' = UnlinkIfExists(files, TmpPath(cur))
                  /\ staleKept' = FALSE
               \/ /\ TmpPath(cur) \in DOMAIN files
                  /\ files' = files
                  /\ staleKept' = TRUE
            /\ UNCHANGED << status, changed >>
    /\ UNCHANGED << inputVars, walkVars, fixed, failed, outcomes, toolVars, cur,
                    exitCode, toolCalls, created, unlinkFailed >>

\* run_qpdf, lines 30-43: the tool runs; both modes name the source as input
\* and the temp path as output.  It may write the temp path or not, and exit
\* with status 0 or not; it never writes the source.  A tool that cannot be
\* started is the case "nothing written, failure".
RunQpdf ==
    /\ pc = "run_qpdf"
    /\ toolCalls' = toolCalls + 1
    /\ \E w \in {NoWrite} \cup ToolOutputs, rc \in {0, 1} :
          /\ toolWrote' = w
          /\ IF w = NoWrite
             THEN UNCHANGED << files, created >>
             ELSE /\ files' = WriteFile(files, TmpPath(cur), w)
                  /\ created' = created \cup {TmpPath(cur)}
          /\ pc' = IF rc = 0 THEN "check" ELSE "except"
    /\ UNCHANGED << inputVars, walkVars, countVars, toolVars, cur, status, changed,
                    exitCode, handed, curPre, staleKept, unlinkFailed >>

\* fix_one_pdf, lines 75-82: the temp output must exist and hold at least ten
\* bytes; then it replaces the source, which may fail (the source is locked).
CheckAndReplace ==
    /\ pc = "check"
    /\ IF TmpInvalid(files, TmpPath(cur))
       THEN /\ pc' = "except"
            /\ UNCHANGED << files, status, changed >>
       ELSE \/ /\ files' = Replace(files, TmpPath(cur), cur)
               /\ status' = "OK" /\ changed' = TRUE
               /\ pc' = "count"
            \/ /\ pc' = "except"
               /\ UNCHANGED << files, status, changed >>
    /\ UNCHANGED << inputVars, walkVars, countVars, toolVars, cur, exitCode, handed,
                    curPre, toolCalls, toolWrote, created, staleKept, unlinkFailed >>

\* fix_one_pdf, lines 84-91: after any failure the temp file is deleted if it
\* exists; a failure of that deletion is ignored.
Cleanup ==
    /\ pc = "except"
    /\ \/ /\ files' = UnlinkIfExists(files, TmpPath(cur))
          /\ UNCHANGED unlinkFailed
       \/ /\ TmpPath(cur) \in DOMAIN files
          /\ files' = files
          /\ unlinkFailed' = unlinkFailed \cup {TmpPath(cur)}
    /\ status' = "FEHLER" /\ changed' = FALSE
    /\ pc' = "count"
    /\ UNCHANGED << inputVars, walkVars, countVars, toolVars, cur, exitCode, handed,
                    curPre, toolCalls, toolWrote, created, staleKept >>

\* main, lines 138-146: count the outcome and go on with the next candidate.
\* The call is over, so the history of the call is cleared.
Count ==
    /\ pc = "count"
    /\ fixed' = NewFixed(status, fixed)
    /\ failed' = NewFailed(status, failed)
    /\ outcomes' = Append(outcomes, status)
    /\ pc' = AfterCount(status)
    /\ curPre' = NoWrite /\ toolWrote' = NoWrite /\ staleKept' = FALSE
    /\ UNCHANGED << inputVars, walkVars, total, toolVars, cur, status, changed,
                    exitCode, handed, files, toolCalls, created, unlinkFailed >>

\* main, lines 148-154: the summary and the exit status.
Summary ==
    /\ pc = "summary"
    /\ exitCode' = ExitStatus(failed)
    /\ pc' = "exit"
    /\ UNCHANGED << inputVars, fsVars, walkVars, countVars, toolVars, cur, status,
                    changed, handed, curPre >>

\* The process is killed: nothing more runs, no handler cleans up.
Kill ==
    /\ pc \notin {"exit", "killed"}
    /\ pc' = "killed"
    /\ UNCHANGED << inputVars, fsVars, walkVars, countVars, toolVars, cur, status,
                    changed, exitCode, handed, curPre >>

Run ==
    \/ CheckRoot \/ FindQpdf
    \/ WalkNextDir \/ WalkNextFile \/ WalkEnd
    \/ FixEnter \/ RunQpdf \/ CheckAndReplace \/ Cleanup
    \/ Count \/ Summary

Next == Run \/ Kill

Spec == Init /\ [][Next]_vars

\* The run when nobody kills the process and every step, the tool included,
\* terminates.  The name of the root plays no part in the driver loop, and a
\* file that cannot be read is no candidate; both are fixed here.
LiveInit == Init /\ rootName = N_data /\ unreadable = {}
LiveSpec == LiveInit /\ [][Run]_vars /\ WF_vars(Run)

\* -------------------------------------------------------------- properties

Range(s) == { s[i] : i \in 1..Len(s) }
CountOf(s, x) == Cardinality({ i \in 1..Len(s) : s[i] = x })
NoDuplicates(s) == \A i, j \in 1..Len(s) : s[i] = s[j] => i = j
IsPrefixOf(s, t) == Len(s) <= Len(t) /\ SubSeq(t, 1, Len(s)) = s

\* fix_one_pdf has returned for cur and the driver has not yet counted it.
Returned == pc = "count"
\* A candidate is being processed: handed to fix_one_pdf and not yet counted.
InFlight == Len(handed) > Len(outcomes)
\* The driver is between two candidates, or past the loop.
AtLoopHead == pc \in {"walk", "body", "summary"} \/ (pc = "exit" /\ exitCode # 2)
\* The temp files the tool wrote in this run that exist now.
LiveTemps == created \cap DOMAIN files
\* The name lies in the exclusion set once lower-cased.
Excluded(name) == Lower(name) \in skip_dirs
\* The extension of the name is ".pdf" in any case: a non-empty stem, then
\* the four characters.
HasPdfExtension(name) ==
    /\ Len(name) > 4
    /\ \A i \in 1..4 : LowerChar(name[Len(name) - 4 + i]) = DotPdf[i]
\* The file, as the run found it, can be read and starts with "%PDF-".
HasPdfHeader(p) ==
    /\ p \in DOMAIN files0
    /\ p \notin unreadable
    /\ Len(files0[p]) >= 5
    /\ \A i \in 1..5 : files0[p][i] = Magic[i]
\* The candidates of the tree as it was at the start: PDFs by extension and
\* header, below no excluded subdirectory of the root.
ExpectedCandidates ==
    { p \in DOMAIN files0 :
        /\ HasPdfExtension(Last(p))
        /\ HasPdfHeader(p)
        /\ \A i \in 1..(Len(p) - 1) : ~Excluded(p[i]) }

\* C1, as stated: after a failed fix_one_pdf the source has the content it
\* had before the call and no temp file is left at the temp path.
C1_FailureLeavesNoTemp ==
    (Returned /\ status = "FEHLER") =>
        /\ cur \in DOMAIN files /\ files[cur] = curPre
        /\ TmpPath(cur) \notin DOMAIN files

\* C1, amended: after a failed fix_one_pdf the source has the content it had
\* before the call, and a temp file is left at the temp path only if its
\* deletion after the failure itself failed.
C1_FailureKeepsSource ==
    (Returned /\ status = "FEHLER") =>
        /\ cur \in DOMAIN files /\ files[cur] = curPre
        /\ TmpPath(cur) \in DOMAIN files => TmpPath(cur) \in unlinkFailed

\* A failure after the tool wrote a temp file, which was then deleted.
C1_Witness ==
    /\ Returned /\ status = "FEHLER"
    /\ toolWrote = Out10
    /\ TmpPath(cur) \notin DOMAIN files
    /\ files[cur] = PdfA

\* C2: after fix_one_pdf returned OK the source holds exactly what the tool
\* wrote to the temp path in this call, and the temp path is gone.
C2_SuccessPromotesToolOutput ==
    (Returned /\ status = "OK") =>
        /\ toolWrote # NoWrite
        /\ files[cur] = toolWrote
        /\ TmpPath(cur) \notin DOMAIN files

\* C3: in a dry run every candidate returns (False, "DRY-RUN"), the file
\* system stays as it was, stale temp files included, and the tool never runs.
C3_DryRunTouchesNothing ==
    dry_run =>
        /\ files = files0
        /\ toolCalls = 0
        /\ created = {}
        /\ \A i \in 1..Len(outcomes) : outcomes[i] = "DRY-RUN"
        /\ Returned => (status = "DRY-RUN" /\ changed = FALSE)

\* A finished dry run over a.pdf with a stale temp file beside it.
C3_Witness ==
    /\ dry_run /\ pc = "exit" /\ exitCode = 0
    /\ <<N_a>> \in Range(handed)
    /\ <<TmpName(N_a)>> \in DOMAIN files

C5_EveryCandidateProcessed ==
    /\ [](/\ IsPrefixOf(handed, yielded)
          /\ Len(yielded) <= Len(handed) + 1
          /\ NoDuplicates(handed)
          /\ Len(outcomes) <= Len(handed)
          /\ Len(handed) <= Len(outcomes) + 1)
    /\ [](pc = "summary" =>
            /\ handed = yielded
            /\ Len(outcomes) = Len(handed)
            /\ Range(handed) = ExpectedCandidates)
    /\ <>(pc = "exit")
    /\ [](pc = "exit" => (exitCode = 2 \/ Range(handed) = ExpectedCandidates))

\* A finished run whose first candidate failed and whose second was repaired.
C5_Witness ==
    /\ pc = "exit"
    /\ Len(handed) = 2
    /\ outcomes = <<"FEHLER", "OK">>

\* C6, as stated: no directory with an excluded name is listed, and no file
\* with such a directory among its ancestors is tested, yielded or handed to
\* the tool; the root counts as a directory and as an ancestor.
C6_NoExcludedDirectoryAtAll ==
    /\ \A d \in visited :
          ~Excluded(rootName) /\ \A i \in 1..Len(d) : ~Excluded(d[i])
    /\ \A p \in examined \cup Range(yielded) \cup Range(handed) :
          ~Excluded(rootName) /\ \A i \in 1..(Len(p) - 1) : ~Excluded(p[i])

\* C6, amended: no directory below the root with an excluded name is listed,
\* and no file with such a directory between the root and itself is tested,
\* yielded or handed to the tool; the root itself is walked whatever its name.
C6_NoExcludedSubdirectory ==
    /\ \A d \in visited : \A i \in 1..Len(d) : ~Excluded(d[i])
    /\ \A p \in examined \cup Range(yielded) \cup Range(handed) :
          \A i \in 1..(Len(p) - 1) : ~Excluded(p[i])

\* A finished walk that yielded a PDF two levels down and passed by a PDF
\* below an excluded directory.
C6_Witness ==
    /\ pc = "exit" /\ exitCode # 2
    /\ <<N_docs, N_Git, N_a>> \in DOMAIN files0
    /\ yielded = << <<N_docs, N_docs, N_a>> >>

\* C7: a file the walker tests is yielded exactly when its extension is
\* ".pdf" in any case and it can be read and starts with "%PDF-"; a temp file
\* is never yielded.
C7_YieldedIffPdf ==
    /\ \A p \in examined :
          (p \in Range(yielded)) <=> (HasPdfExtension(Last(p)) /\ HasPdfHeader(p))
    /\ \A p \in Range(yielded) : Suffix(Last(p)) # QpdfTmp /\ p \in examined

\* A finished walk over a text file named c.pdf and a PDF named b.PDF.
C7_Witness ==
    /\ pc = "exit"
    /\ <<N_c>> \in examined /\ files0[<<N_c>>] = Hello
    /\ yielded = << <<N_b>> >>

C9_OnlyTheTempInFlight ==
    /\ Cardinality(LiveTemps) <= 1
    /\ \A t \in LiveTemps : InFlight /\ t = TmpPath(handed[Len(handed)])

\* C9, amended: a temp file written in this run exists only while its
\* candidate is being processed, or after a failure whose deletion of the
\* temp file failed.
C9_OnlyTheTempInFlightOrUndeletable ==
    /\ Cardinality(LiveTemps \ unlinkFailed) <= 1
    /\ \A t \in LiveTemps \ unlinkFailed :
          InFlight /\ t = TmpPath(handed[Len(handed)])

\* A kill while the second candidate's temp file exists, the first
\* candidate's temp file being gone.
C9_Witness ==
    /\ pc = "killed"
    /\ Len(handed) = 2
    /\ TmpPath(handed[2]) \in LiveTemps
    /\ TmpPath(handed[1]) \in created \ DOMAIN files

\* C10: what fix_one_pdf promotes was written by the tool in this call; the
\* content of a stale temp file never reaches a source path.
C10_NeverPromotesStaleTemp ==
    /\ (Returned /\ status = "OK") => toolWrote # NoWrite
    /\ \A p \in DOMAIN files :
          files[p] = Stale => (p \in DOMAIN files0 /\ files0[p] = Stale)

====
